---- MODULE Spec2Model ----
(***************************************************************************)
(* Model of src/pipeline_multi.cpp (peasoup): the DM dispenser, the        *)
(* per-accelerator worker threads and the master thread that creates,      *)
(* joins and post-processes them.                                          *)
(***************************************************************************)
EXTENDS Integers, Sequences, FiniteSets, TLC

\* ---------------------------------------------------------------- bounds
MaxTrials == 2      \* largest number of DM trials the dedisperser returns
MaxGpu == 2         \* largest number of accelerators in the machine
MaxAcc == 2         \* largest length of an acceleration list
NSamps == 2         \* samples of a DM trial, trials.get_nsamps()

\* ------------------------------------------------------ program constants
MinSnr == 9            \* default of --min_snr

MaxWorkers == IF MaxGpu > 1 THEN MaxGpu ELSE 1
Threads == 0 .. (MaxWorkers - 1)
\* lengths of the acceleration list: one acceleration (acc_start = acc_end, the
\* default) or the longest
AccLens == { 1, MaxAcc }

\* values of --num_threads: not positive, fewer than, as many as or more than the accelerators
ThreadArgs == 0 .. MaxGpu

VARIABLES
  mpc,              \* master thread: position in main
  term,             \* "running", "returned" or "aborted" (std::terminate)
  exit_code,        \* value returned by main, as the process exit status
  args,             \* CmdLineOptions fields that are read after parsing
  gpu_count,        \* Utils::gpu_count()
  nthreads,         \* main: nthreads
  mii,              \* main: loop counter ii of the create and join loops
  count,            \* trials.get_count(), DMDispenser::count
  padding,          \* size > trials.get_nsamps()
  nacc,             \* length of the list AccelerationPlan generates
  dm_idx,           \* DMDispenser::dm_idx (the cursor)
  mutex,            \* DMDispenser::mutex: -1 when free, else the owner
  progress,         \* the ProgressBar driven by the dispenser
  wpc,              \* worker thread: position in Worker::start
  retval,           \* get_dm_trial_idx: local retval of each caller
  ii,               \* Worker::start: local ii
  tim,              \* Worker::start: local tim (the host trial)
  bzap,             \* Worker::start: state of the pointer bzap and its Zapper
  chain,            \* steps of Worker::start run for the current DM trial
  accel_trial_cands,\* Worker::start: local accel_trial_cands
  dm_trial_cands,   \* Worker::dm_trial_cands
  dev,              \* Worker::start: the device buffers d_tim, d_tim_r and mean, std
  dm_cands,         \* main: dm_cands
  stages,           \* post-processing stages main has run, in order
  got,              \* history: values get_dm_trial_idx returned to each worker
  processed,        \* history: indices each worker passed to trials.get_idx
  merged,           \* history: workers whose dm_trial_cands main has read
  faulted           \* history: threads in which an accelerator error was raised

vars == << mpc, term, exit_code, args, gpu_count, nthreads, mii, count, padding,
           nacc, dm_idx, mutex, progress, wpc, retval, ii, tim, bzap, chain,
           accel_trial_cands, dm_trial_cands, dev, dm_cands, stages, got,
           processed, merged, faulted >>

mainVars == << mpc, exit_code, args, gpu_count, nthreads, mii, count, padding,
               nacc, dm_cands, stages, merged >>
dispVars == << dm_idx, mutex, progress >>
pipeVars == << tim, bzap, chain, accel_trial_cands, dm_trial_cands, dev, processed >>

\* ------------------------------------------------------------- helpers
Min(a, b) == IF a < b THEN a ELSE b
Max(a, b) == IF a > b THEN a ELSE b

\* main returns an int; the process exit status keeps its low eight bits
ExitStatus(r) == r % 256

\* dm of trial i in the DispersionTrials the dedisperser returns
DmOf(i) == 5 * i

\* AccelerationPlan::generate_accel_list: an ordered list that starts at acc_start
AccList(n) == [k \in 1 .. n |-> k - 1]

\* S/N the peak finder reports for a peak of trial i, acceleration a, harmonic h
SnrOf(i, a, h) == MinSnr + i + a + 2 * h

\* SpectrumCandidates trial_cands(dm, dm_idx, acc): the tags its candidates carry
SpectrumCandidates(dm, idx, acc) == [dm |-> dm, dm_idx |-> idx, acc |-> acc, cands |-> << >>]

\* PeakFinder::find_candidates: appends one candidate per peak found, tagged by the container
FindCandidates(tc, peaks) ==
  [tc EXCEPT !.cands = @ \o
     [k \in 1 .. Len(peaks) |->
        [dm |-> tc.dm, dm_trial_idx |-> tc.dm_idx, acc |-> tc.acc, nh |-> peaks[k],
         freq |-> 1, snr |-> SnrOf(tc.dm_idx, tc.acc, peaks[k])]]]

\* position of the highest-S/N element of a non-empty sequence (first on ties)
RECURSIVE BestPos(_, _, _)
BestPos(s, k, best) ==
  IF k > Len(s) THEN best
  ELSE BestPos(s, k + 1, IF s[k].snr > s[best].snr THEN k ELSE best)

Remove(s, p) == [k \in 1 .. (Len(s) - 1) |-> IF k < p THEN s[k] ELSE s[k + 1]]

\* candidates in order of descending S/N
RECURSIVE SortBySnr(_)
SortBySnr(s) ==
  IF s = << >> THEN << >>
  ELSE LET p == BestPos(s, 1, 1) IN << s[p] >> \o SortBySnr(Remove(s, p))

\* when two candidates count as the same signal for each distiller
Related(kind, a, b) ==
  CASE kind = "harmonic" -> a.freq = b.freq
    [] kind = "acceleration" -> a.freq = b.freq /\ a.dm = b.dm
    [] kind = "dm" -> a.freq = b.freq

\* keep the strongest of every class of related candidates, drop the rest
RECURSIVE Keep(_, _)
Keep(s, kind) ==
  IF s = << >> THEN << >>
  ELSE << Head(s) >> \o Keep(SelectSeq(Tail(s), LAMBDA c : ~Related(kind, Head(s), c)), kind)

Distill(s, kind) == Keep(SortBySnr(s), kind)

HarmonicDistill(s) == Distill(s, "harmonic")
AccelerationDistill(s) == Distill(s, "acceleration")
DMDistill(s) == Distill(s, "dm")

\* what the two find_candidates calls of an acceleration trial find: nothing in a
\* trial without a signal, else a peak in the spectrum (0) and one in the first
\* harmonic sum (1)
Peaks(signal) == IF signal THEN << 0, 1 >> ELSE << >>

Running == term = "running"

\* ------------------------------------------------------- device buffers
\* the transform size main fixes: above the samples of a trial when the worker
\* pads, else equal to them
Size == IF padding THEN NSamps + 1 ELSE NSamps

\* a sample of device memory that nothing has written yet
Unset == 0

\* sample k (from 1) of DM trial i of the DispersionTrials
HostSample(i, k) == 10 * (i + 1) + 3 * k

\* the value the cleaning chain leaves, after the inverse FFT, in a sample whose
\* input was v
Cleaned(v) == 0 - v

\* the value resampling to acceleration a leaves in a sample read as v
Resampled(v, a) == v * (MaxAcc + 2) + (a + 1)

\* the worker's buffers before Worker::start has allocated them
NoDevice == [d_tim |-> << >>, d_tim_r |-> << >>, fft_in |-> << >>, stats |-> -1,
             reads |-> << >>]

\* d_tim(size), d_tim_r(size) and the locals mean, std as declared
Allocate ==
  [d_tim |-> [k \in 1 .. Size |-> Unset], d_tim_r |-> [k \in 1 .. Size |-> Unset],
   fft_in |-> << >>, stats |-> -1, reads |-> << >>]

\* ReusableDeviceTimeSeries::copy_from_host: the samples of trial i, as many as fit
CopyFromHost(buf, i) ==
  [k \in DOMAIN buf |-> IF k <= Min(NSamps, Len(buf)) THEN HostSample(i, k) ELSE buf[k]]

RECURSIVE SumTo(_, _)
SumTo(buf, n) == IF n = 0 THEN 0 ELSE buf[n] + SumTo(buf, n - 1)

\* stats::mean(data, n): the mean of the first n samples, on the model's integer grid
Mean(buf, n) == SumTo(buf, n) \div n

\* DeviceTimeSeries::fill(start, end, value): the samples of indices start..end-1
Fill(buf, start, end, value) ==
  [k \in DOMAIN buf |-> IF start < k /\ k <= end THEN value ELSE buf[k]]

\* bool padding: size > trials.get_nsamps()
Padding(size, n) == size > n

\* variant: the mean taken over the whole buffer
Pad_MeanOfAll(buf, n) ==
  IF Padding(Len(buf), n) THEN Fill(buf, n, Len(buf), Mean(buf, Len(buf))) ELSE buf

\* if (padding): fill from the n samples of the trial to the end of d_tim with
\* the mean of the first n
Pad(buf, n) ==
  IF Padding(Len(buf), n) THEN Fill(buf, n, Len(buf), Mean(buf, n)) ELSE buf

\* the forward FFT reads d_tim, the inverse FFT overwrites it
InverseFFT(buf) == [k \in DOMAIN buf |-> Cleaned(buf[k])]

\* the buffers after the cleaning chain of trial i: d_tim copied and padded, read
\* by the forward FFT and overwritten by the inverse FFT; mean and std taken
\* from the spectrum of trial i
CleanDevice(d, i) ==
  LET padded == Pad(CopyFromHost(d.d_tim, i), NSamps) IN
    [d EXCEPT !.fft_in = padded, !.d_tim = InverseFFT(padded), !.stats = i,
              !.reads = << >>]

\* TimeDomainResampler::resample(in, out, size, acc)
Resample(buf, a) == [k \in DOMAIN buf |-> Resampled(buf[k], a)]

\* variant: the resampler writing over its input
ResampleInto_InPlace == "d_tim"

\* the buffer resample writes
ResampleInto == "d_tim_r"

\* one acceleration trial: resample d_tim, normalise with mean and std
AccelTrial(d, a) ==
  [d EXCEPT ![ResampleInto] = Resample(d.d_tim, a),
            !.reads = Append(@, [acc |-> a, src |-> d.d_tim, norm |-> d.stats])]

\* the buffers after the acceleration loop over accs
RECURSIVE AccelDevice(_, _)
AccelDevice(d, accs) ==
  IF accs = << >> THEN d ELSE AccelDevice(AccelTrial(d, Head(accs)), Tail(accs))

\* ----------------------------------------------------------------- Init
NoTim == [dm |-> -1, idx |-> -1]

Init ==
  /\ mpc = "parse"
  /\ term = "running"
  /\ exit_code = 0
  /\ args = [max_num_threads |-> 0, zapfile |-> FALSE, progress_bar |-> FALSE]
  /\ gpu_count = 0
  /\ nthreads = 0
  /\ mii = 0
  /\ count = 0
  /\ padding = FALSE
  /\ nacc = 0
  /\ dm_idx = 0
  /\ mutex = -1
  /\ progress = [enabled |-> FALSE, starts |-> 0, stops |-> 0, running |-> FALSE,
                 reports |-> << >>]
  /\ wpc = [w \in Threads |-> "none"]
  /\ retval = [w \in Threads |-> -1]
  /\ ii = [w \in Threads |-> -1]
  /\ tim = [w \in Threads |-> NoTim]
  /\ bzap = [w \in Threads |-> "uninit"]
  /\ chain = [w \in Threads |-> << >>]
  /\ accel_trial_cands = [w \in Threads |-> << >>]
  /\ dm_trial_cands = [w \in Threads |-> << >>]
  /\ dev = [w \in Threads |-> NoDevice]
  /\ dm_cands = << >>
  /\ stages = << >>
  /\ got = [w \in Threads |-> << >>]
  /\ processed = [w \in Threads |-> << >>]
  /\ merged = {}
  /\ faulted = {}

\* CandidateCollection::append: the candidates are added after those present
AppendCands(coll, cands) == coll \o cands

\* ------------------------------------------------------------ main thread
\* main: nthreads = max(1, min(gpu_count, max_num_threads))
NThreads(g, mt) == Max(1, Min(g, mt))

\* variant: the handler of the parse error returns 0
ReturnValue_Zero(completed) == 0

\* what main returns: 0 at its end, -1 from the handler of TCLAP::ArgException
ReturnValue(completed) == IF completed THEN 0 ELSE -1

\* cmd.parse throws TCLAP::ArgException: main prints the error and returns -1
ParseError ==
  /\ Running /\ mpc = "parse"
  /\ mpc' = "exited"
  /\ term' = "returned"
  /\ exit_code' = ExitStatus(ReturnValue(FALSE))
  /\ UNCHANGED << args, gpu_count, nthreads, mii, count, padding, nacc, dm_cands,
                  stages, merged, faulted, wpc, retval, ii, got >>
  /\ UNCHANGED dispVars /\ UNCHANGED pipeVars

\* the arguments parse; main computes nthreads
ParseOk ==
  /\ Running /\ mpc = "parse"
  /\ \E mt \in ThreadArgs, z \in BOOLEAN, pb \in BOOLEAN, g \in 0 .. MaxGpu :
       /\ args' = [max_num_threads |-> mt, zapfile |-> z, progress_bar |-> pb]
       /\ gpu_count' = g
       /\ nthreads' = NThreads(g, mt)
  /\ mpc' = "config"
  /\ UNCHANGED << term, exit_code, mii, count, padding, nacc, dm_cands, stages,
                  merged, faulted, wpc, retval, ii, got >>
  /\ UNCHANGED dispVars /\ UNCHANGED pipeVars

\* the tests of the loops over the threads: ii < nthreads
CreateMore(i) == i < nthreads

\* variant: a join loop that stops one thread short
JoinMore_Short(i) == i < nthreads - 1

JoinMore(i) == i < nthreads

AfterCreate == IF JoinMore(0) THEN "join" ELSE "dm_distill"

\* main reads the filterbank, dedisperses, fixes the transform size and the
\* acceleration plan, and constructs the dispenser
Configure ==
  /\ Running /\ mpc = "config"
  /\ \E n \in 0 .. MaxTrials, a \in AccLens, pad \in BOOLEAN :
       /\ count' = n
       /\ nacc' = a
       /\ padding' = pad
  /\ dm_idx' = 0
  /\ mutex' = -1
  /\ progress' = [progress EXCEPT !.enabled = args.progress_bar]
  /\ mii' = 0
  /\ mpc' = IF CreateMore(0) THEN "create" ELSE AfterCreate
  /\ UNCHANGED << term, exit_code, args, gpu_count, nthreads, dm_cands, stages,
                  merged, faulted, wpc, retval, ii, got >>
  /\ UNCHANGED pipeVars

\* the input cannot be read: the exception leaves main, which has no handler
InputError ==
  /\ Running /\ mpc = "config"
  /\ term' = "aborted"
  /\ faulted' = faulted \cup {-1}
  /\ UNCHANGED << wpc, retval, ii, got >>
  /\ UNCHANGED mainVars /\ UNCHANGED dispVars /\ UNCHANGED pipeVars

\* one iteration of the loop that creates the workers and their threads
CreateWorker ==
  /\ Running /\ mpc = "create" /\ CreateMore(mii)
  /\ wpc' = [wpc EXCEPT ![mii] = "start"]
  /\ mii' = IF CreateMore(mii + 1) THEN mii + 1 ELSE 0
  /\ mpc' = IF CreateMore(mii + 1) THEN "create" ELSE AfterCreate
  /\ UNCHANGED << term, exit_code, args, gpu_count, nthreads, count, padding, nacc,
                  dm_cands, stages, merged, faulted, retval, ii, got >>
  /\ UNCHANGED dispVars /\ UNCHANGED pipeVars

\* variant: the collection read without waiting for the thread
Joinable_NoWait(w) == TRUE

\* pthread_join returns once the thread has returned
Joinable(w) == wpc[w] = "done"

\* one iteration of the join loop: join thread ii, then append its candidates
JoinWorker ==
  /\ Running /\ mpc = "join" /\ JoinMore(mii)
  /\ Joinable(mii)
  /\ dm_cands' = AppendCands(dm_cands, dm_trial_cands[mii])
  /\ merged' = merged \cup {mii}
  /\ mii' = mii + 1
  /\ mpc' = IF JoinMore(mii + 1) THEN "join" ELSE "dm_distill"
  /\ UNCHANGED << term, exit_code, args, gpu_count, nthreads, count, padding, nacc,
                  stages, faulted, wpc, retval, ii, got >>
  /\ UNCHANGED dispVars /\ UNCHANGED pipeVars

\* a post-processing stage of main: what it does to dm_cands, and where main goes next
Stage(at, name, result, next) ==
  /\ Running /\ mpc = at
  /\ dm_cands' = result
  /\ stages' = Append(stages, name)
  /\ mpc' = next
  /\ UNCHANGED << term, exit_code, args, gpu_count, nthreads, mii, count, padding,
                  nacc, merged, faulted, wpc, retval, ii, got >>
  /\ UNCHANGED dispVars /\ UNCHANGED pipeVars

DistillDMs == Stage("dm_distill", "dm_distill", DMDistill(dm_cands), "harm_distill")
DistillHarmonics == Stage("harm_distill", "harm_distill", HarmonicDistill(dm_cands), "score")
ScoreAll == Stage("score", "score", dm_cands, "fold")
FoldTop == Stage("fold", "fold", dm_cands, "write")
WriteCandidateFile == Stage("write", "write", dm_cands, "return")

\* return 0
ReturnOk ==
  /\ Running /\ mpc = "return"
  /\ mpc' = "exited"
  /\ term' = "returned"
  /\ exit_code' = ExitStatus(ReturnValue(TRUE))
  /\ UNCHANGED << args, gpu_count, nthreads, mii, count, padding, nacc, dm_cands,
                  stages, merged, faulted, wpc, retval, ii, got >>
  /\ UNCHANGED dispVars /\ UNCHANGED pipeVars

\* -------------------------------------------------------------- dispenser
\* variant: a lock that admits a thread while another holds the mutex
MutexFree_NoWait == TRUE

\* pthread_mutex_lock returns only when no thread holds the mutex
MutexFree == mutex = -1

\* variant: the test written with > for >=
AtEnd_Late(c, n) == c > n

\* variant: the first call hands out trial 0 without the test
AtEnd_FirstUntested(c, n) == c >= n /\ c > 0

\* the cursor has passed the last trial: dm_idx >= trials.get_count()
AtEnd(c, n) == c >= n

\* variant: the sentinel branch returns without unlocking
SentinelExit_EarlyReturn == "done"

\* where the sentinel branch continues: at the unlock
SentinelExit == "unlock"

\* variant: the increment left out
NextIdx_Stuck(c) == c

\* variant: the cursor advanced by two
NextIdx_Skip(c) == c + 2

\* what dm_idx++ leaves in the cursor
NextIdx(c) == c + 1

\* get_dm_trial_idx up to the increment: take the mutex; start the progress bar
\* on the first trial; test the cursor and set retval, stopping the bar at the
\* end and reporting the progress before it
Lock(w) ==
  /\ Running /\ wpc[w] = "ready"
  /\ MutexFree
  /\ mutex' = w
  /\ LET started == IF dm_idx = 0 /\ progress.enabled
                    THEN [progress EXCEPT !.starts = @ + 1, !.running = TRUE]
                    ELSE progress
     IN IF AtEnd(dm_idx, count)
        THEN /\ retval' = [retval EXCEPT ![w] = -1]
             /\ progress' = IF progress.enabled
                            THEN [started EXCEPT !.stops = @ + 1, !.running = FALSE]
                            ELSE started
             /\ wpc' = [wpc EXCEPT ![w] = SentinelExit]
        ELSE /\ retval' = [retval EXCEPT ![w] = dm_idx]
             /\ progress' = IF progress.enabled
                            THEN [started EXCEPT !.reports = Append(@, dm_idx)]
                            ELSE started
             /\ wpc' = [wpc EXCEPT ![w] = "incr"]
  /\ UNCHANGED << dm_idx, term, faulted, ii, got >>
  /\ UNCHANGED mainVars /\ UNCHANGED pipeVars

\* dm_idx++
Incr(w) ==
  /\ Running /\ wpc[w] = "incr"
  /\ dm_idx' = NextIdx(dm_idx)
  /\ wpc' = [wpc EXCEPT ![w] = "unlock"]
  /\ UNCHANGED << mutex, progress, term, faulted, retval, ii, got >>
  /\ UNCHANGED mainVars /\ UNCHANGED pipeVars

\* ----------------------------------------------------------------- worker
\* the accelerator the worker is pinned to exists
DeviceExists(w) == w < gpu_count

\* Worker::start up to its loop: select the device, allocate the buffers and
\* the FFT plans, create the zapper when a zap file is configured
Start(w) ==
  /\ Running /\ wpc[w] = "start"
  /\ DeviceExists(w)
  /\ bzap' = [bzap EXCEPT ![w] = IF args.zapfile THEN "live" ELSE "uninit"]
  /\ dev' = [dev EXCEPT ![w] = Allocate]
  /\ wpc' = [wpc EXCEPT ![w] = "ready"]
  /\ UNCHANGED << tim, chain, accel_trial_cands, dm_trial_cands, processed,
                  term, faulted, retval, ii, got >>
  /\ UNCHANGED mainVars /\ UNCHANGED dispVars

\* variant: the loop without its break
AfterIdx_NoBreak(r) == "clean"

\* where the loop goes on the value the dispenser returned
AfterIdx(r) == IF r = -1 THEN "done" ELSE "clean"

\* variant: delete bzap without the test of the zap file
Cleanup_Always(z) == "deleted"

\* what the end of Worker::start leaves of the zapper: deleted when a zap file
\* is configured
Cleanup(z) == IF args.zapfile THEN "deleted" ELSE z

\* pthread_mutex_unlock; get_dm_trial_idx returns; ii = retval; on -1 the loop
\* ends, the zapper is deleted and the thread returns
Unlock(w) ==
  /\ Running /\ wpc[w] = "unlock"
  /\ mutex' = -1
  /\ ii' = [ii EXCEPT ![w] = retval[w]]
  /\ got' = [got EXCEPT ![w] = Append(@, retval[w])]
  /\ wpc' = [wpc EXCEPT ![w] = AfterIdx(retval[w])]
  /\ bzap' = [bzap EXCEPT ![w] = IF AfterIdx(retval[w]) = "done" THEN Cleanup(@) ELSE @]
  /\ UNCHANGED << dm_idx, progress, term, faulted, retval >>
  /\ UNCHANGED << tim, chain, accel_trial_cands, dm_trial_cands, dev, processed >>
  /\ UNCHANGED mainVars

\* variant: the statistics taken after the inverse FFT
CleanSteps_StatsLate ==
  << "get_idx", "copy_from_host" >>
  \o (IF padding THEN << "pad" >> ELSE << >>)
  \o << "generate_accel_list", "fft", "form", "calculate_median", "deredden" >>
  \o (IF args.zapfile THEN << "zap" >> ELSE << >>)
  \o << "form_interpolated", "ifft", "stats" >>

\* the steps of the cleaning chain, in the order Worker::start runs them
CleanSteps ==
  << "get_idx", "copy_from_host" >>
  \o (IF padding THEN << "pad" >> ELSE << >>)
  \o << "generate_accel_list", "fft", "form", "calculate_median", "deredden" >>
  \o (IF args.zapfile THEN << "zap" >> ELSE << >>)
  \o << "form_interpolated", "stats", "ifft" >>

\* variant: accel_trial_cands declared outside the loop over the DM trials
FreshAccelCands_Stale(old) == old

\* accel_trial_cands as declared before the acceleration loop
FreshAccelCands(old) == << >>

\* one DM trial up to the acceleration loop: fetch trial ii, copy it to the
\* device, pad and clean it, and declare an empty accel_trial_cands
Clean(w) ==
  /\ Running /\ wpc[w] = "clean"
  /\ args.zapfile => bzap[w] = "live"
  /\ tim' = [tim EXCEPT ![w] = [dm |-> DmOf(ii[w]), idx |-> ii[w]]]
  /\ processed' = [processed EXCEPT ![w] = Append(@, ii[w])]
  /\ chain' = [chain EXCEPT ![w] = CleanSteps]
  /\ accel_trial_cands' = [accel_trial_cands EXCEPT ![w] = FreshAccelCands(@)]
  /\ dev' = [dev EXCEPT ![w] = CleanDevice(@, ii[w])]
  /\ wpc' = [wpc EXCEPT ![w] = "accel"]
  /\ UNCHANGED << bzap, dm_trial_cands, term, faulted, retval, ii, got >>
  /\ UNCHANGED mainVars /\ UNCHANGED dispVars

\* the tags of the candidates of acceleration trial j (counted from 0)
TrialTags(w, j) == SpectrumCandidates(tim[w].dm, ii[w], AccList(nacc)[j + 1])

\* the acceleration loop from iteration j on: each iteration finds the peaks of
\* its trial, distils their harmonics and appends them to accel_trial_cands
RECURSIVE AccelLoop(_, _, _, _)
AccelLoop(w, j, cands, signal) ==
  IF j >= nacc THEN cands
  ELSE AccelLoop(w, j + 1,
         AppendCands(cands, HarmonicDistill(FindCandidates(TrialTags(w, j), Peaks(signal)).cands)),
         signal)

\* variant: the spectrum normalised before it is formed from the new transform
AccelSteps_NormaliseEarly(a) ==
  << << "resample", a >>, << "fft", a >>, << "normalise", a >>,
     << "form_interpolated", a >>, << "fold", a >>, << "find_candidates", a >>,
     << "harm_distill", a >> >>

\* the steps of one iteration of the acceleration loop, in order
AccelSteps(a) ==
  << << "resample", a >>, << "fft", a >>, << "form_interpolated", a >>,
     << "normalise", a >>, << "fold", a >>, << "find_candidates", a >>,
     << "harm_distill", a >> >>

RECURSIVE AccelChain(_)
AccelChain(accs) ==
  IF accs = << >> THEN << >> ELSE AccelSteps(Head(accs)) \o AccelChain(Tail(accs))

\* the rest of the DM trial: the acceleration loop, then distil accelerations
\* and append the result to the worker's collection
Search(w) ==
  /\ Running /\ wpc[w] = "accel"
  /\ \E signal \in BOOLEAN :
       LET found == AccelLoop(w, 0, accel_trial_cands[w], signal) IN
         /\ accel_trial_cands' = [accel_trial_cands EXCEPT ![w] = found]
         /\ dm_trial_cands' = [dm_trial_cands EXCEPT ![w] =
                                   AppendCands(@, AccelerationDistill(found))]
  /\ chain' = [chain EXCEPT ![w] = @ \o AccelChain(AccList(nacc)) \o << "acc_distill" >>]
  /\ dev' = [dev EXCEPT ![w] = AccelDevice(@, AccList(nacc))]
  /\ wpc' = [wpc EXCEPT ![w] = "ready"]
  /\ UNCHANGED << tim, bzap, processed, term, faulted, retval, ii, got >>
  /\ UNCHANGED mainVars /\ UNCHANGED dispVars

\* Worker::start on an accelerator that does not exist: cudaSetDevice fails, its
\* result is ignored, and the first allocation raises an error that nothing catches
StartNoDevice(w) ==
  /\ Running /\ wpc[w] = "start"
  /\ ~DeviceExists(w)
  /\ term' = "aborted"
  /\ faulted' = faulted \cup {w}
  /\ UNCHANGED << wpc, retval, ii, got >>
  /\ UNCHANGED mainVars /\ UNCHANGED dispVars /\ UNCHANGED pipeVars

\* positions of Worker::start that allocate device buffers, set up the FFTs
\* or copy a trial to the device
AcceleratorOps == { "start", "clean" }

\* an accelerator call raises an error: it surfaces as an exception
RaisesError(w) == wpc[w] \in AcceleratorOps

\* neither Worker::start nor launch_worker_thread nor main catches anything:
\* the exception leaves the thread function and the process is terminated
Fault(w) ==
  /\ Running
  /\ RaisesError(w)
  /\ term' = "aborted"
  /\ faulted' = faulted \cup {w}
  /\ UNCHANGED << wpc, retval, ii, got >>
  /\ UNCHANGED mainVars /\ UNCHANGED dispVars /\ UNCHANGED pipeVars

\* new Zapper(args.zapfilename) in Worker::start: the zap file cannot be opened
\* or read, the constructor raises an error and nothing catches it
ZapFileError(w) ==
  /\ Running /\ wpc[w] = "start"
  /\ DeviceExists(w)
  /\ args.zapfile
  /\ bzap' = [bzap EXCEPT ![w] = "failed"]
  /\ term' = "aborted"
  /\ UNCHANGED << tim, chain, accel_trial_cands, dm_trial_cands, dev, processed,
                  faulted, wpc, retval, ii, got >>
  /\ UNCHANGED mainVars /\ UNCHANGED dispVars

\* ------------------------------------------------------------ specification
MainStep ==
  \/ ParseError \/ ParseOk \/ Configure \/ InputError \/ CreateWorker \/ JoinWorker
  \/ DistillDMs \/ DistillHarmonics \/ ScoreAll \/ FoldTop \/ WriteCandidateFile
  \/ ReturnOk

WorkerStep(w) ==
  \/ Start(w) \/ StartNoDevice(w) \/ Lock(w) \/ Incr(w) \/ Unlock(w) \/ Clean(w)
  \/ Search(w)

Next ==
  \/ MainStep
  \/ \E w \in Threads : WorkerStep(w)
  \/ \E w \in Threads : Fault(w)
  \/ \E w \in Threads : ZapFileError(w)

Spec == Init /\ [][Next]_vars

\* every thread that can run is scheduled; an accelerator error need not happen
FairSpec ==
  /\ Spec
  /\ WF_vars(MainStep)
  /\ \A w \in Threads : WF_vars(WorkerStep(w))

\* ---------------------------------------------------------------- history
\* the threads main has created
Workers == { w \in Threads : wpc[w] # "none" }

\* the workers are all created and have all returned
AllDone == nthreads >= 1 /\ \A w \in Threads : w < nthreads => wpc[w] = "done"

\* main has left the join loop
PastJoin == mpc \in { "dm_distill", "harm_distill", "score", "fold", "write", "return" }
              \/ (mpc = "exited" /\ nthreads >= 1)

Times(s, v) == Cardinality({ k \in DOMAIN s : s[k] = v })

RECURSIVE SumOver(_, _, _)
SumOver(ws, s, v) ==
  IF ws = {} THEN 0
  ELSE LET w == CHOOSE x \in ws : TRUE IN Times(s[w], v) + SumOver(ws \ {w}, s, v)

\* how often the dispenser has returned v, over all workers
Returned(v) == SumOver(Threads, got, v)

\* how often trial v has been fetched and copied to a device, over all workers
Processed(v) == SumOver(Threads, processed, v)

\* calls that hold a value they have not returned yet
InFlight(v) == Cardinality({ w \in Threads : wpc[w] \in { "incr", "unlock" } /\ retval[w] = v })

\* the indices the dispenser has handed to a call so far
Handed == dm_idx + Cardinality({ w \in Threads : wpc[w] = "incr" })

Indices == 0 .. (MaxTrials + 1)

CallPcs == { "incr", "unlock" }
InCall(w) == wpc[w] \in CallPcs

\* -------------------------------------------------------------------- C1
C1_Once ==
  /\ Handed <= count
  /\ \A v \in Indices : Returned(v) + InFlight(v) = (IF v < Handed THEN 1 ELSE 0)
  /\ \A w \in Threads : \A k \in DOMAIN got[w] : got[w][k] \in ({-1} \cup Indices)
  /\ (AllDone /\ PastJoin) => \A v \in Indices : Returned(v) = (IF v < count THEN 1 ELSE 0)

C1_SentinelAfterEnd ==
  \A w \in Threads :
    (wpc[w] = "ready" /\ wpc'[w] # "ready" /\ dm_idx >= count) => retval'[w] = -1

\* C1: over every interleaving of the workers' calls of get_dm_trial_idx, each
\* index 0..N-1 is returned exactly once, none skipped and none twice, and a
\* call that meets a cursor that has reached N returns -1.
C1_Dispense == [] C1_Once /\ [][C1_SentinelAfterEnd]_vars

C1_Witness ==
  /\ AllDone /\ PastJoin /\ nthreads = 2 /\ count = 2
  /\ \A w \in { 0, 1 } : Len(got[w]) = 2

\* -------------------------------------------------------------------- C2
C2_Call ==
  /\ 0 <= dm_idx /\ dm_idx <= count
  /\ \A w \in Threads :
       /\ wpc[w] = "incr" => (retval[w] = dm_idx /\ dm_idx < count)
       /\ wpc[w] = "unlock" =>
            \/ retval[w] = -1 /\ dm_idx = count
            \/ retval[w] >= 0 /\ dm_idx = retval[w] + 1

C2_Step ==
  /\ dm_idx' >= dm_idx
  /\ dm_idx' # dm_idx =>
       /\ dm_idx' = dm_idx + 1
       /\ \E w \in Threads : wpc[w] = "incr" /\ retval[w] = dm_idx /\ wpc'[w] = "unlock"
  /\ \A w \in Threads :
       (wpc[w] = "ready" /\ wpc'[w] # "ready") =>
          /\ dm_idx' = dm_idx
          /\ retval'[w] = (IF dm_idx >= count THEN -1 ELSE dm_idx)
          /\ wpc'[w] = (IF dm_idx >= count THEN "unlock" ELSE "incr")

\* C2: a call of get_dm_trial_idx that finds the cursor at c returns -1 and
\* leaves the cursor alone when c >= N, and otherwise returns c and leaves c+1;
\* the cursor stays within 0..N and never decreases.
C2_Cursor == [] C2_Call /\ [][C2_Step]_vars

C2_Witness ==
  /\ count = 2 /\ dm_idx = count
  /\ \E w \in Threads : wpc[w] = "unlock" /\ retval[w] = -1
  /\ \E w \in Threads : got[w] = << 0, 1 >>

\* -------------------------------------------------------------------- C3
C3_Exclusive ==
  /\ Cardinality({ w \in Threads : InCall(w) }) <= 1
  /\ \A w \in Threads : InCall(w) <=> mutex = w

C3_UnderLock ==
  /\ dm_idx' # dm_idx => \E w \in Threads : mutex = w /\ InCall(w)
  /\ progress' # progress =>
       \/ mpc = "config"
       \/ \E w \in Threads : mutex' = w /\ wpc'[w] \in CallPcs
  /\ \A w \in Threads : retval'[w] # retval[w] => (mutex' = w /\ wpc'[w] \in CallPcs)
  /\ \A w \in Threads : (InCall(w) /\ wpc'[w] \notin CallPcs) => mutex' = -1

\* C3: at most one worker is between the lock and the unlock of
\* get_dm_trial_idx, the cursor is read and written only by the holder of the
\* mutex, every path through the call releases the mutex, and a worker waiting
\* for the lock gets it (unless the process is terminated first).
C3_Mutex ==
  /\ [] C3_Exclusive
  /\ [][C3_UnderLock]_vars
  /\ \A w \in Threads : (wpc[w] = "ready") ~> (InCall(w) \/ term = "aborted")

C3_Witness ==
  /\ \E w \in Threads : wpc[w] = "incr" /\ mutex = w
  /\ \E w \in Threads : wpc[w] = "ready" /\ got[w] # << >>

\* -------------------------------------------------------------------- C4
\* C4: no DM trial is fetched and copied to a device twice, by the same worker
\* or by two, only indices the dispenser returned to the worker are processed,
\* and when all workers have returned every trial 0..N-1 has been processed once.
C4_ProcessedOnce ==
  /\ \A v \in Indices : Processed(v) <= 1
  /\ \A w \in Threads : \A k \in DOMAIN processed[w] :
       /\ processed[w][k] \in 0 .. (count - 1)
       /\ k \in DOMAIN got[w] /\ got[w][k] = processed[w][k]
  /\ (AllDone /\ PastJoin) => \A v \in 0 .. (count - 1) : Processed(v) = 1

C4_Witness ==
  /\ AllDone /\ PastJoin /\ count = 2
  /\ processed[0] # << >> /\ processed[1] # << >>

\* -------------------------------------------------------------------- C5
Last(s) == s[Len(s)]

C5_Machine ==
  \A w \in Threads :
    /\ Times(got[w], -1) <= 1
    /\ wpc[w] \in { "none", "start" } => got[w] = << >>
    /\ wpc[w] \in { "ready", "incr", "unlock", "accel" } => got[w] = processed[w]
    /\ wpc[w] = "clean" => (ii[w] >= 0 /\ got[w] = Append(processed[w], ii[w]))
    /\ wpc[w] = "done" => got[w] = Append(processed[w], -1)

C5_Moves ==
  \A w \in Threads :
    wpc'[w] # wpc[w] =>
      \/ wpc[w] = "none" /\ wpc'[w] = "start"
      \/ wpc[w] = "start" /\ wpc'[w] = "ready"
      \/ wpc[w] = "ready" /\ wpc'[w] \in { "incr", "unlock" }
      \/ wpc[w] = "incr" /\ wpc'[w] = "unlock"
      \/ wpc[w] = "unlock" /\ retval[w] = -1 /\ wpc'[w] = "done"
      \/ wpc[w] = "unlock" /\ retval[w] >= 0 /\ wpc'[w] = "clean" /\ ii'[w] = retval[w]
      \/ wpc[w] = "clean" /\ wpc'[w] = "accel" /\ Last(processed'[w]) = ii[w]
      \/ wpc[w] = "accel" /\ wpc'[w] = "ready"

\* C5: a worker that receives -1 leaves its loop and returns without another
\* request, a worker that receives i >= 0 processes i and requests again; and
\* under fair scheduling, unless an error terminates the process, every worker
\* returns and main's join loop completes.
C5_WorkerTerminates ==
  /\ [] C5_Machine
  /\ [][C5_Moves]_vars
  /\ <>(term = "aborted" \/ (term = "returned" /\ nthreads = 0) \/ (AllDone /\ PastJoin))

C5_Witness ==
  /\ AllDone /\ PastJoin /\ nthreads = 2
  /\ got[0] = << 1, -1 >> /\ got[1] = << 0, -1 >>

\* -------------------------------------------------------------------- C6
IsPrefix(a, b) == Len(a) <= Len(b) /\ SubSeq(b, 1, Len(a)) = a

\* the collections of workers 0..k-1, one after the other
RECURSIVE Collected(_)
Collected(k) == IF k = 0 THEN << >> ELSE Collected(k - 1) \o dm_trial_cands[k - 1]

C6_ReadAfterJoin ==
  /\ \A w \in merged : wpc[w] = "done"
  /\ mpc = "join" => (merged = 0 .. (mii - 1) /\ dm_cands = Collected(mii))
  /\ mpc = "dm_distill" => (merged = 0 .. (nthreads - 1) /\ dm_cands = Collected(nthreads))

C6_OwnAppend ==
  /\ \A w \in Threads :
       dm_trial_cands'[w] # dm_trial_cands[w] =>
         /\ wpc[w] = "accel" /\ wpc'[w] = "ready"
         /\ IsPrefix(dm_trial_cands[w], dm_trial_cands'[w])
         /\ w \notin merged'
         /\ \A v \in Threads \ {w} : dm_trial_cands'[v] = dm_trial_cands[v]
  /\ merged' # merged =>
       \E w \in Threads \ merged :
         /\ merged' = merged \cup {w}
         /\ wpc[w] = "done"
         /\ dm_cands' = dm_cands \o dm_trial_cands[w]

\* C6: main reads a worker's dm_trial_cands only once that worker's thread has
\* returned and been joined, a collection is appended to by its own worker only,
\* and after the join loop dm_cands holds every candidate of every worker's
\* collection exactly once.
C6_Aggregate == [] C6_ReadAfterJoin /\ [][C6_OwnAppend]_vars

C6_Witness ==
  /\ mpc = "dm_distill" /\ nthreads = 2
  /\ dm_trial_cands[0] # << >> /\ dm_trial_cands[1] # << >>
  /\ Len(dm_cands) = 2

\* -------------------------------------------------------------------- C7
PostStages == << "dm_distill", "harm_distill", "score", "fold", "write" >>

\* C7: no post-processing stage of main runs before all workers are joined; the
\* stages run once each in the order DM distillation, harmonic distillation,
\* scoring, folding, writing; and no worker runs during them.
C7_StagesAfterJoin ==
  /\ IsPrefix(stages, PostStages)
  /\ (stages # << >> \/ PastJoin) => (AllDone /\ merged = 0 .. (nthreads - 1))
  /\ \A k \in DOMAIN PostStages : mpc = PostStages[k] => Len(stages) = k - 1
  /\ mpc = "return" => stages = PostStages
  /\ (term = "returned" /\ exit_code = 0) => stages = PostStages
  /\ mpc \in { "parse", "config", "create", "join" } => stages = << >>

C7_Witness == term = "returned" /\ stages = PostStages /\ nthreads = 2 /\ count = 2

\* -------------------------------------------------------------------- C8
Tagged(c) == c.dm_trial_idx >= 0 /\ c.dm = DmOf(c.dm_trial_idx)

\* C8: every candidate of a worker's collection, and of main's aggregate, carries
\* an index the dispenser returned to that worker and the dm of that trial; the
\* candidates accumulated over one acceleration loop all carry the index and dm
\* of the trial being processed.
C8_CandidateTags ==
  /\ \A w \in Threads : \A k \in DOMAIN dm_trial_cands[w] :
       LET c == dm_trial_cands[w][k] IN
         Tagged(c) /\ Times(processed[w], c.dm_trial_idx) = 1
                   /\ Times(got[w], c.dm_trial_idx) = 1
  /\ \A w \in Threads : \A k \in DOMAIN accel_trial_cands[w] :
       LET c == accel_trial_cands[w][k] IN
         Tagged(c) /\ c.dm_trial_idx = tim[w].idx /\ c.dm = tim[w].dm
                   /\ c.dm_trial_idx = Last(processed[w])
  /\ \A k \in DOMAIN dm_cands :
       LET c == dm_cands[k] IN
         Tagged(c) /\ \E w \in merged : Times(got[w], c.dm_trial_idx) = 1

C8_Witness ==
  /\ \E w \in Threads :
       /\ Len(dm_trial_cands[w]) = 2
       /\ dm_trial_cands[w][1].dm_trial_idx # dm_trial_cands[w][2].dm_trial_idx
       /\ accel_trial_cands[w] # << >>
  /\ dm_cands # << >>

\* -------------------------------------------------------------------- C9
\* C9: an accelerator error in a worker stops that worker only: the process goes
\* on, the other workers keep running and main still joins and aggregates.
C9_FaultIsLocal == (faulted \cap Threads # {}) => term # "aborted"

\* ------------------------------------------------------------------- C10
\* C10: main returns 0 exactly when the run completed, a parse error ends the
\* process with a nonzero status, and a process in which an input or a worker
\* error was raised, in one worker or in all, never ends with status 0.
C10_ExitCode ==
  /\ exit_code \in 0 .. 255
  /\ term = "returned" => (exit_code = 0 <=> stages = PostStages)
  /\ (term = "returned" /\ nthreads = 0) => exit_code # 0
  /\ faulted # {} => ~(term = "returned" /\ exit_code = 0)
  /\ (term # "running" /\ nthreads >= 1 /\ 0 .. (nthreads - 1) \subseteq faulted) =>
       term = "aborted"

C10_Witness == term = "returned" /\ exit_code = 255 /\ mpc = "exited"

\* ------------------------------------------------------------------- C11
\* the run ended with a configuration error (the arguments do not parse) or an
\* I/O error (the input or the zap file cannot be read)
ConfigOrIOError ==
  \/ term = "returned" /\ nthreads = 0
  \/ term = "aborted" /\ -1 \in faulted
  \/ term = "aborted" /\ \E w \in Threads : bzap[w] = "failed"

\* C11: in a run that ends with a configuration or I/O error, a missing or
\* unreadable zap file included, no worker thread was created and no DM index
\* was dispensed.
C11_ErrorsBeforeWorkers ==
  ConfigOrIOError =>
    /\ Workers = {}
    /\ dm_idx = 0
    /\ \A w \in Threads : got[w] = << >> /\ wpc[w] \notin CallPcs

\* ------------------------------------------------------------------- C12
\* main has computed nthreads
PastParse == mpc \notin { "parse", "exited" } \/ (mpc = "exited" /\ stages = PostStages)

\* main has left the create loop
PastCreate == PastParse /\ mpc \notin { "config", "create" }

\* C12: the number of workers is min(max_threads, accelerator_count), at least
\* 1, whatever the two are; the workers are the threads 0..K-1, each pinned to
\* the accelerator of its own index, and that accelerator exists.
C12_WorkersOnAccelerators ==
  PastParse =>
    /\ nthreads >= 1
    /\ Min(args.max_num_threads, gpu_count) >= 1 =>
         nthreads = Min(args.max_num_threads, gpu_count)
    /\ Workers \subseteq 0 .. (nthreads - 1)
    /\ PastCreate => Workers = 0 .. (nthreads - 1)
    /\ \A w \in Workers : DeviceExists(w)

\* ------------------------------------------------------------------- C13
\* the run has no DM trials
NoTrials == PastParse /\ mpc # "config" /\ count = 0

C13_EmptyRun ==
  /\ NoTrials =>
       /\ dm_idx = 0
       /\ \A w \in Threads :
            /\ got[w] \in { << >>, << -1 >> }
            /\ processed[w] = << >>
            /\ dm_trial_cands[w] = << >>
            /\ wpc[w] \notin { "incr", "clean", "accel" }
            /\ wpc[w] = "done" <=> got[w] = << -1 >>
       /\ dm_cands = << >>
  /\ (PastJoin /\ dm_cands = << >> /\ term = "returned") =>
       (exit_code = 0 /\ stages = PostStages)

C13_StagesOnEmpty ==
  \A k \in DOMAIN PostStages :
    (mpc = PostStages[k] /\ dm_cands = << >> /\ mpc' # mpc) =>
       (stages' = Append(stages, PostStages[k]) /\ dm_cands' = << >>)

\* C13: with no DM trials every worker receives -1 on its first request and
\* returns with an empty collection; with an empty aggregate, from no trials or
\* from no candidate found, main still runs every stage through the writing of
\* the candidate file; and, unless an error terminates the process, the run
\* ends with status 0.
C13_EmptyResult ==
  /\ [] C13_EmptyRun
  /\ [][C13_StagesOnEmpty]_vars
  /\ (mpc = "create" /\ count = 0) ~>
       (term = "aborted" \/ (term = "returned" /\ exit_code = 0 /\ stages = PostStages))
  /\ (PastJoin /\ dm_cands = << >>) ~>
       (term = "aborted" \/ (term = "returned" /\ exit_code = 0 /\ stages = PostStages))

C13_Witness ==
  /\ term = "returned" /\ exit_code = 0 /\ count = 0 /\ nthreads = 2
  /\ \A w \in Threads : got[w] = << -1 >> /\ dm_trial_cands[w] = << >>
  /\ stages = PostStages /\ dm_cands = << >>

\* ------------------------------------------------------------------- C14
\* the steps the claim lists
CleaningNames ==
  { "copy_from_host", "pad", "fft", "form", "calculate_median", "deredden", "zap",
    "form_interpolated", "stats", "ifft" }

\* the order the claim gives, for the run's transform size and zap file
CleaningOrder ==
  << "copy_from_host" >>
  \o (IF padding THEN << "pad" >> ELSE << >>)
  \o << "fft", "form", "calculate_median", "deredden" >>
  \o (IF args.zapfile THEN << "zap" >> ELSE << >>)
  \o << "form_interpolated", "stats", "ifft" >>

\* entries the acceleration loop and the distillation after it add to the log
AccelEntries == 7 * nacc + 1

\* the log of the current DM trial up to the acceleration loop
BeforeAccel(w) ==
  IF wpc[w] = "accel" THEN chain[w]
  ELSE IF Len(chain[w]) >= AccelEntries THEN SubSeq(chain[w], 1, Len(chain[w]) - AccelEntries)
  ELSE << >>

CleaningRun(w) == SelectSeq(BeforeAccel(w), LAMBDA e : e \in CleaningNames)

C14_Chain ==
  \A w \in Threads :
    /\ chain[w] # << >> =>
         /\ CleaningRun(w) = CleaningOrder
         /\ Head(BeforeAccel(w)) = "get_idx"
         /\ Len(processed[w]) >= 1
    /\ wpc[w] = "accel" => chain[w] = BeforeAccel(w)
    /\ chain[w] = << >> <=> processed[w] = << >>

C14_Step ==
  \A w \in Threads :
    /\ (wpc[w] = "clean" /\ wpc'[w] # "clean") =>
         /\ wpc'[w] = "accel"
         /\ processed'[w] = Append(processed[w], ii[w])
         /\ SelectSeq(chain'[w], LAMBDA e : e \in CleaningNames) = CleaningOrder
    /\ (wpc[w] = "accel" /\ wpc'[w] # "accel") =>
         /\ Len(chain'[w]) = Len(chain[w]) + AccelEntries
         /\ SubSeq(chain'[w], 1, Len(chain[w])) = chain[w]
    /\ chain'[w] # chain[w] => wpc[w] \in { "clean", "accel" }

\* C14: for every DM index a worker processes, the cleaning chain runs in the
\* order copy, pad (only when the transform size exceeds the samples), forward
\* FFT, form, running median, deredden, zap (only with a zap file), interpolated
\* form, statistics, inverse FFT, each step once, and the whole chain is done
\* before the first acceleration trial of that DM.
C14_CleaningChain == [] C14_Chain /\ [][C14_Step]_vars

C14_Witness ==
  \E w \in Threads :
    /\ wpc[w] = "accel" /\ Len(processed[w]) = 2
    /\ padding /\ args.zapfile
    /\ Len(chain[w]) = 12

\* ------------------------------------------------------------------- C15
\* the steps of one acceleration trial, in the order the claim gives
SearchOrder ==
  << "resample", "fft", "form_interpolated", "normalise", "fold", "find_candidates",
     "harm_distill" >>

\* the log the claim expects of the acceleration loop over plan and of the
\* distillation after it
SearchLog(plan) ==
  [p \in 1 .. (7 * Len(plan)) |->
     << SearchOrder[((p - 1) % 7) + 1], plan[((p - 1) \div 7) + 1] >>]
  \o << "acc_distill" >>

\* the log of the current DM trial from the acceleration loop on
FromAccel(w) == SubSeq(chain[w], Len(chain[w]) - AccelEntries + 1, Len(chain[w]))

C15_Log ==
  \A w \in Threads :
    (chain[w] # << >> /\ wpc[w] # "accel") =>
       /\ Len(chain[w]) > AccelEntries
       /\ FromAccel(w) = SearchLog(AccList(nacc))
       /\ chain[w] = BeforeAccel(w) \o FromAccel(w)

C15_Step ==
  \A w \in Threads :
    /\ (wpc[w] = "accel" /\ wpc'[w] # "accel") =>
         LET found == accel_trial_cands'[w]
             new == SubSeq(dm_trial_cands'[w], Len(dm_trial_cands[w]) + 1,
                           Len(dm_trial_cands'[w]))
         IN /\ wpc'[w] = "ready"
            /\ accel_trial_cands[w] = << >>
            /\ Len(found) \in { 0, nacc }
            /\ \A k \in DOMAIN found :
                 found[k].acc = AccList(nacc)[k] /\ found[k].dm_trial_idx = ii[w]
            /\ IsPrefix(dm_trial_cands[w], dm_trial_cands'[w])
            /\ Len(new) = (IF found = << >> THEN 0 ELSE 1)
            /\ \A k \in DOMAIN new :
                 /\ \E j \in DOMAIN found : found[j] = new[k]
                 /\ \A j \in DOMAIN found : found[j].snr <= new[k].snr
            /\ SubSeq(chain'[w], Len(chain[w]) + 1, Len(chain'[w])) = SearchLog(AccList(nacc))
    /\ (wpc[w] = "ready" /\ wpc'[w] # "ready") =>
         /\ dm_trial_cands'[w] = dm_trial_cands[w]
         /\ chain'[w] = chain[w]

\* C15: for every DM index a worker processes, each acceleration of the plan is
\* searched once, in plan order, by resample, forward FFT, interpolated form,
\* normalise, harmonic sum, peak finding and harmonic distillation into
\* accel_trial_cands; acceleration distillation runs once after the last
\* acceleration and its result is appended to the worker's dm_trial_cands before
\* the worker requests its next index.
C15_AccelerationSearch == [] C15_Log /\ [][C15_Step]_vars

C15_Witness ==
  \E w \in Threads :
    /\ wpc[w] = "incr" /\ nacc = 2
    /\ Len(processed[w]) = 1 /\ Len(dm_trial_cands[w]) = 1
    /\ Len(accel_trial_cands[w]) = 2
    /\ Len(chain[w]) > 15

\* ------------------------------------------------------------------- C16
\* the samples of trial i as the DispersionTrials hold them
HostData(i) == [k \in 1 .. NSamps |-> HostSample(i, k)]

\* the mean of the samples of trial i
RECURSIVE HostSum(_, _)
HostSum(i, k) == IF k = 0 THEN 0 ELSE HostSample(i, k) + HostSum(i, k - 1)

HostMean(i) == HostSum(i, NSamps) \div NSamps

\* what the claim expects the forward FFT to read for trial i with transform size s
PaddedTrial(i, s) ==
  [k \in 1 .. s |-> IF k <= NSamps THEN HostSample(i, k) ELSE HostMean(i)]

\* C16: the series the forward FFT reads for a DM trial holds the samples of
\* the freshly copied trial at the indices below N and, when the transform size
\* S exceeds N, the mean of those N samples at every index from N to S-1; when S
\* is not above N every sample is a sample of the trial, none changed by padding.
C16_Padding ==
  \A w \in Threads :
    processed[w] # << >> =>
      LET i == Last(processed[w])
          read == dev[w].fft_in
      IN /\ Len(read) = Size
         /\ read = PaddedTrial(i, Size)
         /\ \A k \in 1 .. Min(NSamps, Size) : read[k] = HostData(i)[k]
         /\ Size > NSamps => \A k \in (NSamps + 1) .. Size : read[k] = HostMean(i)
         /\ Size <= NSamps => read = SubSeq(HostData(i), 1, Size)
         /\ \A k \in DOMAIN read : read[k] # Unset

C16_Witness ==
  \E w \in Threads :
    /\ Len(processed[w]) = 2 /\ wpc[w] = "accel"
    /\ Size > NSamps
    /\ dev[w].fft_in[Size] = HostMean(processed[w][2])
    /\ dev[w].fft_in[Size] # HostMean(processed[w][1])

\* ------------------------------------------------------------------- C18
\* the cleaned series of the trial whose padded input was read
CleanedSeries(read) == [k \in DOMAIN read |-> 0 - read[k]]

C18_Buffers ==
  \A w \in Threads :
    processed[w] # << >> =>
      LET d == dev[w] IN
        /\ d.stats = Last(processed[w])
        /\ d.d_tim = CleanedSeries(d.fft_in)
        /\ Len(d.reads) = (IF wpc[w] = "accel" THEN 0 ELSE nacc)
        /\ \A k \in DOMAIN d.reads :
             /\ d.reads[k].acc = AccList(nacc)[k]
             /\ d.reads[k].src = d.d_tim
             /\ d.reads[k].norm = Last(processed[w])

C18_Frame ==
  \A w \in Threads :
    (wpc[w] = "accel" /\ wpc'[w] # "accel") =>
       /\ dev'[w].d_tim = dev[w].d_tim
       /\ dev'[w].stats = dev[w].stats /\ dev[w].stats = ii[w]
       /\ dev'[w].fft_in = dev[w].fft_in
       /\ dev'[w].d_tim_r =
            [k \in 1 .. Size |-> dev[w].d_tim[k] * (MaxAcc + 2) + AccList(nacc)[nacc] + 1]

\* C18: the acceleration loop of a DM trial leaves the cleaned series d_tim and
\* the statistics mean, std as the cleaning chain of that trial left them: every
\* acceleration trial resamples from that same series into d_tim_r and
\* normalises with the statistics of that same trial.
C18_CleanedSeriesKept == [] C18_Buffers /\ [][C18_Frame]_vars

C18_Witness ==
  \E w \in Threads :
    /\ wpc[w] = "ready" /\ Len(processed[w]) = 2 /\ nacc = 2
    /\ Len(dev[w].reads) = 2
    /\ dev[w].reads[2].src = dev[w].d_tim
    /\ dev[w].d_tim_r # dev[w].d_tim

\* ------------------------------------------------------------------- C17
\* the calls of get_dm_trial_idx that have returned, over the workers ws
RECURSIVE Calls(_)
Calls(ws) ==
  IF ws = {} THEN 0
  ELSE LET w == CHOOSE x \in ws : TRUE IN Len(got[w]) + Calls(ws \ {w})

\* the workers that have received the sentinel
Drained == { w \in Threads : \E k \in DOMAIN got[w] : got[w][k] = -1 }

\* C17: a worker receives -1 at most once and then makes no further call, so
\* at any time the calls that have returned number the indices handed out plus
\* the workers that received -1; when every worker has returned, each has
\* received -1 exactly once, as its last call, and the calls number N + K.
C17_CallCount ==
  /\ \A w \in Threads :
       /\ Times(got[w], -1) <= 1
       /\ w \in Drained <=> wpc[w] = "done"
       /\ w \in Drained => (Last(got[w]) = -1 /\ Len(got[w]) = Len(processed[w]) + 1)
  /\ Calls(Threads) + Cardinality({ w \in Threads : InCall(w) /\ retval[w] >= 0 })
       = Handed + Cardinality(Drained)
  /\ Calls(Threads) <= count + nthreads
  /\ (AllDone /\ PastJoin) =>
       /\ Drained = 0 .. (nthreads - 1)
       /\ Calls(Threads) = count + nthreads

C17_Witness ==
  /\ AllDone /\ PastJoin /\ term = "returned"
  /\ nthreads = 2 /\ count = 2
  /\ Calls(Threads) = 4
  /\ Len(got[0]) = 3 /\ Len(got[1]) = 1

\* ------------------------------------------------------------------- C19
\* how often the cleaning chain of the current DM trial has called zap
Zaps(w) == Len(SelectSeq(BeforeAccel(w), LAMBDA e : e = "zap"))

C19_Zapper ==
  \A w \in Threads :
    /\ wpc[w] = "none" => bzap[w] = "uninit"
    /\ wpc[w] = "start" => bzap[w] \in { "uninit", "failed" }
    /\ bzap[w] = "failed" => (args.zapfile /\ term = "aborted" /\ wpc[w] = "start")
    /\ wpc[w] \in { "ready", "incr", "unlock", "clean", "accel" } =>
         bzap[w] = (IF args.zapfile THEN "live" ELSE "uninit")
    /\ wpc[w] = "done" => bzap[w] = (IF args.zapfile THEN "deleted" ELSE "uninit")
    /\ chain[w] # << >> => Zaps(w) = (IF args.zapfile THEN 1 ELSE 0)

C19_Step ==
  \A w \in Threads :
    /\ bzap'[w] # bzap[w] =>
         \/ /\ bzap[w] = "uninit" /\ bzap'[w] = "live"
            /\ args.zapfile /\ wpc[w] = "start" /\ wpc'[w] = "ready" /\ got[w] = << >>
         \/ /\ bzap[w] = "live" /\ bzap'[w] = "deleted"
            /\ args.zapfile /\ wpc[w] = "unlock" /\ wpc'[w] = "done" /\ retval[w] = -1
         \/ /\ bzap[w] = "uninit" /\ bzap'[w] = "failed"
            /\ args.zapfile /\ wpc[w] = "start" /\ term' = "aborted"
    /\ (wpc[w] = "start" /\ wpc'[w] = "ready") => (bzap'[w] = "live" <=> args.zapfile)
    /\ (wpc[w] = "clean" /\ wpc'[w] = "accel") =>
         /\ bzap'[w] = bzap[w]
         /\ Len(SelectSeq(chain'[w], LAMBDA e : e = "zap")) = (IF bzap[w] = "live" THEN 1 ELSE 0)
         /\ bzap[w] = "live" <=> args.zapfile
    /\ (wpc[w] = "unlock" /\ wpc'[w] = "done") => (bzap'[w] = "deleted" <=> args.zapfile)

\* C19: a worker creates a Zapper exactly when a zap file is configured, once,
\* before its first DM request; zap is called once per DM trial on that live
\* Zapper and never without a zap file; the Zapper is deleted once, when the
\* worker leaves its loop on -1; and without a zap file the pointer is never
\* set, used or deleted.
C19_ZapperLifecycle == [] C19_Zapper /\ [][C19_Step]_vars

C19_Witness ==
  /\ args.zapfile /\ term = "returned" /\ nthreads = 2
  /\ \A w \in Threads : bzap[w] = "deleted" /\ wpc[w] = "done"
  /\ \E w \in Threads : Len(processed[w]) = 2 /\ Zaps(w) = 1

\* ------------------------------------------------------------------- C20
C20_Bar ==
  progress.enabled =>
    /\ progress.starts <= 1
    /\ (progress.reports # << >> \/ progress.stops > 0) => progress.starts = 1
    /\ \A k \in DOMAIN progress.reports :
         /\ progress.reports[k] \in 0 .. (count - 1)
         /\ k > 1 => progress.reports[k - 1] < progress.reports[k]
    /\ progress.running => progress.stops = 0

C20_Stopped ==
  (progress.enabled /\ progress.stops > 0) =>
     /\ progress'.starts = progress.starts
     /\ progress'.reports = progress.reports
     /\ ~progress'.running

\* C20: with the progress bar enabled, for every number of workers and of DM
\* trials, zero included, and every interleaving: the bar is started exactly
\* once, before any value is reported; the values reported are cursor/N for
\* strictly increasing cursors in 0..N-1; and once stopped the bar is never
\* started or updated again.
C20_ProgressBar == [] C20_Bar /\ [][C20_Stopped]_vars

====
